---- MODULE Spec2Model ----
(***************************************************************************)
(* Five-in-a-row: the rules engine (GameLogic), the move log (MoveHistory), *)
(* the interaction layer (InteractionManager) and the controller that wires *)
(* them (GameController), as one state machine.                             *)
(*                                                                         *)
(* Every handler of the source is an operator from a "world" record (the   *)
(* fields of the four objects) to the world it leaves behind; an action    *)
(* applies one handler to the current world.  Listener calls are inlined   *)
(* in registration order at the emit that triggers them.                   *)
(*                                                                         *)
(* Init is the world the constructors are written to establish: a          *)
(* GameLogic whose listener map exists, wired once by GameController.init. *)
(* Not modelled: DOM, audio, UIManager rendering, timestamps of moves.     *)
(***************************************************************************)
EXTENDS Integers, Sequences, FiniteSets, TLC

\* ---------------------------------------------------------------- bounds
\* Side of the board of the model (config.boardSize; the source defaults to 15).
BoardSize == 7
\* The small retention cap of MoveHistory that makes eviction happen.
HistoryCap == 3
\* Longest run laid on each side of the anchor by the generated saved games.
MaxRun == 3
\* Most entries ever added to the move log when it is driven on its own.
MaxAdds == 5

\* ------------------------------------------------------ program constants
Empty == 0
Black == 1
White == 2
NoWinner == 0
WinLength == 5
MinBoardSize == 5
DefaultMaxHistorySize == 1000

\* ------------------------------------------------------------------ state
VARIABLES
    boardSize,         \* GameLogic.boardSize
    boardData,         \* GameLogic.boardData, a function of <<row, col>>
    currentPlayer,     \* GameLogic.currentPlayer
    stepNumber,        \* GameLogic.stepNumber
    gameOver,          \* GameLogic.gameOver
    winner,            \* GameLogic.winner (NoWinner models null)
    history,           \* MoveHistory.history
    maxHistorySize,    \* MoveHistory.maxHistorySize
    evicted,           \* number of entries MoveHistory.addMove has shifted out since the last clear
    gameState,         \* GameController.gameState
    isEnabled,         \* InteractionManager.isEnabled
    isMarkingMode,     \* InteractionManager.isMarkingMode
    prePlacePosition,  \* InteractionManager.prePlacePosition (<<>> models null)
    replay,            \* moves importGame's forEach has still to replay
    events,            \* notifications the engine and the log emitted in the latest step, in order
    op,                \* the handler the latest step belongs to
    ret,               \* what that handler returned ("undefined" while none)
    placed,            \* the GameLogic.placeStone call of the latest step, if any
    before,            \* board, session, phase and log as they were when that call began
    returned,          \* what the latest MoveHistory call of the step returned (NoMove models null)
    rejections,        \* how many placeStone calls of the latest step returned false
    seen,              \* what the rules engine held when each notification of `events` was delivered
    held,              \* the array a caller got from the latest query and may have written to since
    isInitialized,     \* GameController.isInitialized
    connections,       \* how many times init() has wired the listeners of the current modules
    listeners,         \* GameLogic.listeners: "undefined" until the constructor assigns the Map
    thrown,            \* the exception the latest step let escape ("none" if none)
    winHandled,        \* how many times InteractionManager.handleGameWin ran in the latest step
    faulty,            \* the events that have a listener that throws, registered through GameController.on
    heard              \* the events delivered to the listener registered after the one that throws

vars == <<boardSize, boardData, currentPlayer, stepNumber, gameOver, winner,
          history, maxHistorySize, evicted, gameState, isEnabled, isMarkingMode,
          prePlacePosition, replay, events, op, ret, placed, before, returned, rejections, seen,
          held, isInitialized, connections, listeners, thrown, winHandled, faulty, heard>>

Null == <<>>

Positions(n) == (0 .. n - 1) \X (0 .. n - 1)

Cur ==
    [boardSize |-> boardSize, boardData |-> boardData,
     currentPlayer |-> currentPlayer, stepNumber |-> stepNumber,
     gameOver |-> gameOver, winner |-> winner,
     history |-> history, maxHistorySize |-> maxHistorySize, evicted |-> evicted,
     gameState |-> gameState, isEnabled |-> isEnabled,
     isMarkingMode |-> isMarkingMode, prePlacePosition |-> prePlacePosition,
     replay |-> replay, events |-> events, op |-> op, ret |-> ret,
     placed |-> placed, before |-> before, returned |-> returned,
     rejections |-> rejections, seen |-> seen,
     held |-> held, isInitialized |-> isInitialized, connections |-> connections, listeners |-> listeners, thrown |-> thrown, winHandled |-> winHandled, faulty |-> faulty, heard |-> heard]

\* The step to world w: every field of the objects takes its value in w.
Become(w) ==
    \E n \in {w} :
        /\ boardSize' = n.boardSize
        /\ boardData' = n.boardData
        /\ currentPlayer' = n.currentPlayer
        /\ stepNumber' = n.stepNumber
        /\ gameOver' = n.gameOver
        /\ winner' = n.winner
        /\ history' = n.history
        /\ maxHistorySize' = n.maxHistorySize
        /\ evicted' = n.evicted
        /\ gameState' = n.gameState
        /\ isEnabled' = n.isEnabled
        /\ isMarkingMode' = n.isMarkingMode
        /\ prePlacePosition' = n.prePlacePosition
        /\ replay' = n.replay
        /\ events' = n.events
        /\ op' = n.op
        /\ ret' = n.ret
        /\ placed' = n.placed
        /\ before' = n.before
        /\ returned' = n.returned
        /\ rejections' = n.rejections
        /\ seen' = n.seen
        /\ held' = n.held
        /\ isInitialized' = n.isInitialized
        /\ connections' = n.connections
        /\ listeners' = n.listeners
        /\ thrown' = n.thrown
        /\ winHandled' = n.winHandled
        /\ faulty' = n.faulty
        /\ heard' = n.heard

\* What the claims call board, session, phase and History.
Core(w) ==
    [boardData |-> w.boardData, currentPlayer |-> w.currentPlayer,
     stepNumber |-> w.stepNumber, gameOver |-> w.gameOver, winner |-> w.winner,
     gameState |-> w.gameState, history |-> w.history]

NoMove == [row |-> 0, col |-> 0, player |-> 0, step |-> 0]

\* No array in the caller's hands.
NoArray == [kind |-> "none", array |-> <<>>, shares |-> "nothing"]

\* placeStone's `return false`.
Rejected ==
    [success |-> FALSE, win |-> FALSE, winningPositions |-> <<>>, moveData |-> NoMove]

NoCall == [called |-> FALSE, row |-> 0, col |-> 0, ret |-> Rejected]

NoSnapshot ==
    [boardData |-> <<>>, currentPlayer |-> 0, stepNumber |-> 0, gameOver |-> FALSE,
     winner |-> NoWinner, gameState |-> "", history |-> <<>>]

\* The start of a handler: nothing emitted, returned or placed yet.
Begin(w, name) ==
    [w EXCEPT !.events = <<>>, !.seen = <<>>, !.op = name, !.ret = "undefined",
              !.placed = NoCall, !.before = NoSnapshot, !.returned = NoMove,
              !.rejections = 0, !.thrown = "none", !.winHandled = 0, !.heard = <<>>]

\* The fields of the rules engine, as a listener reads them.
Engine(w) ==
    [boardData |-> w.boardData, currentPlayer |-> w.currentPlayer,
     stepNumber |-> w.stepNumber, gameOver |-> w.gameOver, winner |-> w.winner]

\* Variant: emit calls its listeners without the try.  The throw leaves forEach, so
\* the listener registered after the one that throws is not called, and the
\* exception reaches the caller of emit.
deliverUncaught(w, event) ==
    IF event \in w.faulty THEN [w EXCEPT !.thrown = "Error"] ELSE w

\* emit's forEach over the listeners of an event that has one that throws: the
\* throw is caught and logged inside the loop, and the loop goes on to the listener
\* registered after it.
deliver(w, event) ==
    IF event \in w.faulty THEN [w EXCEPT !.heard = Append(@, event)] ELSE w

\* emit(event): the notification is delivered to the listeners in the state the
\* emitter has reached.
notify(w, event) ==
    deliver([w EXCEPT !.events = Append(@, event), !.seen = Append(@, Engine(w))], event)

\* --------------------------------------------------------------- GameLogic
isValidPosition(w, row, col) ==
    row >= 0 /\ row < w.boardSize /\ col >= 0 /\ col < w.boardSize

\* Variant: the cell's occupant is not looked at.
canPlaceStoneIgnoringOccupant(w, row, col) ==
    /\ ~w.gameOver
    /\ row >= 0 /\ row < w.boardSize
    /\ col >= 0 /\ col < w.boardSize

\* Variant: a finished game still takes stones.
canPlaceStoneAfterGameOver(w, row, col) ==
    /\ row >= 0 /\ row < w.boardSize
    /\ col >= 0 /\ col < w.boardSize
    /\ w.boardData[<<row, col>>] = Empty

canPlaceStone(w, row, col) ==
    /\ ~w.gameOver
    /\ row >= 0 /\ row < w.boardSize
    /\ col >= 0 /\ col < w.boardSize
    /\ w.boardData[<<row, col>>] = Empty

\* One `while` loop of checkWin: the cells pushed walking from (r, c) by (dx, dy).
RECURSIVE walk(_, _, _, _, _, _)
walk(w, player, r, c, dx, dy) ==
    IF isValidPosition(w, r, c) /\ w.boardData[<<r, c>>] = player
    THEN <<<<r, c>>>> \o walk(w, player, r + dx, c + dy, dx, dy)
    ELSE <<>>

directions == << <<0, 1>>, <<1, 0>>, <<1, 1>>, <<1, -1>> >>

\* Variant: the negative walk is pushed before the positive one.
lineThroughNegativeFirst(w, row, col, dx, dy) ==
    LET player == w.boardData[<<row, col>>]
    IN  <<<<row, col>>>> \o walk(w, player, row - dx, col - dy, -dx, -dy)
                         \o walk(w, player, row + dx, col + dy, dx, dy)

\* The body of checkWin's `for`: the cell, then the positive walk, then the negative.
lineThrough(w, row, col, dx, dy) ==
    LET player == w.boardData[<<row, col>>]
    IN  <<<<row, col>>>> \o walk(w, player, row + dx, col + dy, dx, dy)
                         \o walk(w, player, row - dx, col - dy, -dx, -dy)

\* Variant: `count >= 5`.
isWinningCountAtLeast(count) == count >= WinLength

\* Variant: the placed stone is counted twice.
isWinningCountOffByOne(count) == count + 1 = WinLength

\* `if (count === 5)`.
isWinningCount(count) == count = WinLength

\* checkWin's `for` from direction i on; <<>> models `return false`.
RECURSIVE checkFrom(_, _, _, _)
checkFrom(w, row, col, i) ==
    IF i > Len(directions) THEN <<>>
    ELSE LET winningPositions == lineThrough(w, row, col, directions[i][1], directions[i][2])
         IN  IF isWinningCount(Len(winningPositions)) THEN winningPositions
             ELSE checkFrom(w, row, col, i + 1)

checkWin(w, row, col) ==
    IF w.boardData[<<row, col>>] = Empty THEN <<>> ELSE checkFrom(w, row, col, 1)

\* isDraw: the game is over without a winner, or no cell of the board is empty.
isDraw(w) ==
    IF w.gameOver /\ w.winner = NoWinner THEN TRUE
    ELSE \A p \in Positions(w.boardSize) : w.boardData[p] # Empty

\* ------------------------------------------------------------- MoveHistory
\* Variant: at the cap the new move is dropped instead of the oldest.
addMoveEvictsNewest(w, moveData) ==
    LET pushed == Append(w.history, moveData)
        over == Len(pushed) > w.maxHistorySize
    IN  notify([w EXCEPT !.history = IF over THEN w.history ELSE pushed,
                         !.evicted = IF over THEN @ + 1 ELSE @,
                         !.returned = moveData],
               "moveAdded")

addMove(w, moveData) ==
    LET pushed == Append(w.history, moveData)
        over == Len(pushed) > w.maxHistorySize
    IN  notify([w EXCEPT !.history = IF over THEN Tail(pushed) ELSE pushed,
                         !.evicted = IF over THEN @ + 1 ELSE @,
                         !.returned = moveData],
               "moveAdded")

\* MoveHistory.setMaxHistorySize: the cap is at least 1; a longer log loses its front.
setMaxHistorySize(w, size) ==
    LET cap == IF size > 1 THEN size ELSE 1
        excess == Len(w.history) - cap
    IN  IF excess > 0
        THEN notify([w EXCEPT !.maxHistorySize = cap,
                              !.history = SubSeq(@, excess + 1, Len(@)),
                              !.evicted = @ + excess],
                    "historyTruncated")
        ELSE [w EXCEPT !.maxHistorySize = cap]

clear(w) ==
    notify([w EXCEPT !.history = <<>>, !.evicted = 0], "historyCleared")

\* ------------------------------------------------------ InteractionManager
clearPreview(w) == [w EXCEPT !.prePlacePosition = Null]

\* InteractionManager.handleGameWin: sound, highlight, status and alert, counted as
\* one run of the win handling, and the preview cleared.
handleGameWin(w) == [clearPreview(w) EXCEPT !.winHandled = @ + 1]

handleGameReset(w) == [clearPreview(w) EXCEPT !.isMarkingMode = FALSE]

handleSuccessfulMove(w, result) ==
    IF result.win THEN handleGameWin(w) ELSE w

\* --------------------------------------------- listeners wired by the controller
\* Variant: the controller's 'gameWin' listener leaves the phase alone.
emitGameWinKeepsPhase(w) ==
    handleGameWin(notify(w, "gameWin"))

\* Variant: the turn passes at a win as it does at any other placement.
emitGameWinPassesTurn(w) ==
    [handleGameWin(notify(w, "gameWin")) EXCEPT
        !.gameState = "finished",
        !.currentPlayer = IF @ = Black THEN White ELSE Black]

\* gameLogic.emit('gameWin'): InteractionManager's listener, then the controller's.
emitGameWin(w) ==
    LET w1 == notify(w, "gameWin")
        w2 == handleGameWin(w1)
    IN  [w2 EXCEPT !.gameState = "finished"]

\* gameLogic.emit('stonePlaced'): the controller's listener calls addMove.
\* setupModuleConnections registers that listener once each time it runs.
emitStonePlaced(w, moveData) ==
    LET added[k \in 0..w.connections] ==
            IF k = 0 THEN notify(w, "stonePlaced") ELSE addMove(added[k - 1], moveData)
    IN  added[w.connections]

\* gameLogic.emit('playerChanged'): only the status text listens.
emitPlayerChanged(w) == notify(w, "playerChanged")

\* Variant: the controller's 'gameReset' listener leaves the phase alone.
emitGameResetKeepsPhase(w) ==
    LET w1 == notify(w, "gameReset")
    IN  clear(handleGameReset(w1))

\* gameLogic.emit('gameReset'): InteractionManager's listener, then the controller's,
\* whose onGameReset clears the log.
emitGameReset(w) ==
    LET w1 == notify(w, "gameReset")
        w2 == handleGameReset(w1)
        w3 == [w2 EXCEPT !.gameState = "playing"]
    IN  clear(w3)

\* ------------------------------------------------- GameLogic, the operations
\* emit reads this.listeners.has(event) outside its try: on an engine that has no
\* listener map yet the read throws a TypeError.
reset(w) ==
    \* The new board is the one function that maps every cell to Empty.
    LET w1 == [w EXCEPT !.boardData = CHOOSE board \in [Positions(w.boardSize) -> {Empty}] : TRUE,
                        !.currentPlayer = Black,
                        !.stepNumber = 1,
                        !.gameOver = FALSE,
                        !.winner = NoWinner]
    IN  IF w1.listeners = "undefined"
        THEN [w1 EXCEPT !.thrown = "TypeError"]
        ELSE emitPlayerChanged(emitGameReset(w1))

otherPlayer(player) == IF player = Black THEN White ELSE Black

\* Variant: the step counter advances and the turn stays.
advanceTurnKeepsPlayer(w) ==
    [w EXCEPT !.stepNumber = @ + 1]

\* placeStone's "switch player": the step counter advances and the turn passes.
advanceTurn(w) ==
    [w EXCEPT !.stepNumber = @ + 1, !.currentPlayer = otherPlayer(@)]

placeStone(w, row, col) ==
    LET called == [w EXCEPT !.before = Core(w)]
    IN
    IF ~canPlaceStone(w, row, col)
    THEN [called EXCEPT !.placed = [called |-> TRUE, row |-> row, col |-> col, ret |-> Rejected],
                        !.rejections = @ + 1]
    ELSE
      LET moveData == [row |-> row, col |-> col, player |-> w.currentPlayer, step |-> w.stepNumber]
          w1 == [called EXCEPT !.boardData[<<row, col>>] = w.currentPlayer]
          winningPositions == checkWin(w1, row, col)
      IN
      IF winningPositions # <<>>
      THEN LET w2 == [w1 EXCEPT !.gameOver = TRUE, !.winner = w.currentPlayer]
               w3 == emitGameWin(w2)
           IN  [w3 EXCEPT !.placed = [called |-> TRUE, row |-> row, col |-> col,
                                      ret |-> [success |-> TRUE, win |-> TRUE,
                                               winningPositions |-> winningPositions,
                                               moveData |-> moveData]]]
      ELSE LET w2 == advanceTurn(w1)
               w3 == emitPlayerChanged(emitStonePlaced(w2, moveData))
           IN  [w3 EXCEPT !.placed = [called |-> TRUE, row |-> row, col |-> col,
                                      ret |-> [success |-> TRUE, win |-> FALSE,
                                               winningPositions |-> <<>>,
                                               moveData |-> moveData]]]

\* ------------------------------------------- InteractionManager, the handlers
confirmPlacement(w, row, col) ==
    LET w1 == placeStone(clearPreview(w), row, col)
    IN  IF w1.placed.ret.success THEN handleSuccessfulMove(w1, w1.placed.ret) ELSE w1

\* Variant: the first click on a placeable cell places the stone.
handleNormalClickPlacesAtOnce(w, row, col) ==
    IF w.gameOver THEN w
    ELSE IF ~canPlaceStone(w, row, col) THEN w
    ELSE confirmPlacement(w, row, col)

handleNormalClick(w, row, col) ==
    IF w.gameOver THEN w
    ELSE IF ~canPlaceStone(w, row, col) THEN w
    ELSE IF w.prePlacePosition # Null
         THEN IF w.prePlacePosition = <<row, col>>
              THEN confirmPlacement(w, row, col)
              ELSE [w EXCEPT !.prePlacePosition = <<row, col>>]
         ELSE [w EXCEPT !.prePlacePosition = <<row, col>>]

\* In marking mode a click toggles a mark of the cell, which is display state only.
handleCellClick(w, row, col) ==
    IF ~w.isEnabled THEN w
    ELSE IF w.isMarkingMode THEN w
    ELSE handleNormalClick(w, row, col)

toggleMarkingMode(w) ==
    LET w1 == [w EXCEPT !.isMarkingMode = ~@]
    IN  IF ~w1.isMarkingMode THEN clearPreview(w1) ELSE w1

handleMarkToggleRequest(w) ==
    IF ~w.isEnabled THEN w ELSE toggleMarkingMode(w)

\* The interaction layer's listener of the undo button.
handleUndoRequest(w) ==
    IF ~w.isEnabled THEN w ELSE clearPreview(w)

\* InteractionManager.resetGame.
interactionResetGame(w) ==
    [reset(w) EXCEPT !.isMarkingMode = FALSE, !.prePlacePosition = Null]

\* InteractionManager.performUndo, the visual side of an undo.
interactionPerformUndo(w) == clearPreview(w)

\* Variant: the interaction layer stays enabled.
disableKeepsEnabled(w) == clearPreview(w)

disable(w) == [clearPreview(w) EXCEPT !.isEnabled = FALSE]

enable(w) == [w EXCEPT !.isEnabled = TRUE]

\* ----------------------------------------------------------- GameController
\* Variant: an undo is accepted in every phase.
canUndoInAnyPhase(w) == Len(w.history) > 0

canUndo(w) == w.gameState = "playing" /\ Len(w.history) > 0

\* Variant: the newest entry is returned but stays in the log.
undoLastMoveKeepsEntry(w) ==
    IF Len(w.history) = 0 THEN [w EXCEPT !.returned = NoMove]
    ELSE LET w1 == notify([w EXCEPT !.returned = w.history[Len(w.history)]], "moveUndone")
         IN  interactionPerformUndo(w1)

\* Variant: the oldest entry is taken.
undoLastMoveFromFront(w) ==
    IF Len(w.history) = 0 THEN [w EXCEPT !.returned = NoMove]
    ELSE LET w1 == notify([w EXCEPT !.history = Tail(@),
                                    !.returned = w.history[1]],
                          "moveUndone")
         IN  interactionPerformUndo(w1)

\* MoveHistory.undoLastMove; the listener of its 'moveUndone' is the controller's
\* onMoveUndone.
undoLastMove(w) ==
    IF Len(w.history) = 0 THEN [w EXCEPT !.returned = NoMove]
    ELSE LET w1 == notify([w EXCEPT !.history = SubSeq(@, 1, Len(@) - 1),
                                    !.returned = w.history[Len(w.history)]],
                          "moveUndone")
         IN  interactionPerformUndo(w1)

getLastMove(w) ==
    [w EXCEPT !.returned = IF Len(w.history) > 0 THEN w.history[Len(w.history)] ELSE NoMove]

\* history.find(move => move.step === step) || null
getMoveByStep(w, step) ==
    LET hasStep(move) == move.step = step
        found == SelectSeq(w.history, hasStep)
    IN  [w EXCEPT !.returned = IF found # <<>> THEN Head(found) ELSE NoMove]

\* Variant: the log's own array is handed out.
getAllMovesReturnsLog(w) ==
    [w EXCEPT !.held = [kind |-> "moves", array |-> w.history, shares |-> "history"]]

\* [...this.history]: a new array with the entries of the log.
getAllMoves(w) ==
    [w EXCEPT !.held = [kind |-> "moves", array |-> w.history, shares |-> "nothing"]]

\* history.filter(...): a new array with the entries of one player.
getMovesByPlayer(w, player) ==
    LET ofPlayer(move) == move.player = player
    IN  [w EXCEPT !.held = [kind |-> "moves", array |-> SelectSeq(w.history, ofPlayer),
                            shares |-> "nothing"]]

\* Variant: the engine's own rows are handed out.
getBoardDataReturnsRows(w) ==
    [w EXCEPT !.held = [kind |-> "board", array |-> w.boardData, shares |-> "boardData"]]

\* boardData.map(row => [...row]): a new array of new rows.
getBoardData(w) ==
    [w EXCEPT !.held = [kind |-> "board", array |-> w.boardData, shares |-> "nothing"]]

\* The caller writes to the array it holds: pop(), push(entry), or [0][0] = White.  The
\* write reaches the log or the board when the array is the engine's own.
writeHeld(w, edit) ==
    LET old == w.held.array
        new == CASE w.held.kind = "moves" /\ edit = "pop" /\ old # <<>> ->
                      SubSeq(old, 1, Len(old) - 1)
                 [] w.held.kind = "moves" /\ edit = "push" -> Append(old, NoMove)
                 [] w.held.kind = "board" /\ edit = "set" ->
                      [old EXCEPT ![<<0, 0>>] = White]
                 [] OTHER -> old
        w1 == [w EXCEPT !.held.array = new]
    IN  CASE w.held.shares = "history" -> [w1 EXCEPT !.history = new]
          [] w.held.shares = "boardData" -> [w1 EXCEPT !.boardData = new]
          [] OTHER -> w1

\* Variant: the step counter is not rolled back.
rollBackKeepsStep(w, lastMove) ==
    [w EXCEPT !.boardData[<<lastMove.row, lastMove.col>>] = Empty,
              !.currentPlayer = lastMove.player,
              !.gameOver = FALSE,
              !.winner = NoWinner]

\* Variant: the cell of the oldest move left in the log is cleared.
rollBackOldest(w, lastMove) ==
    LET move == IF w.history # <<>> THEN w.history[1] ELSE lastMove
    IN  [w EXCEPT !.boardData[<<move.row, move.col>>] = Empty,
                  !.currentPlayer = lastMove.player,
                  !.stepNumber = lastMove.step,
                  !.gameOver = FALSE,
                  !.winner = NoWinner]

\* Variant: the turn is not given back.
rollBackKeepsPlayer(w, lastMove) ==
    [w EXCEPT !.boardData[<<lastMove.row, lastMove.col>>] = Empty,
              !.stepNumber = lastMove.step,
              !.gameOver = FALSE,
              !.winner = NoWinner]

\* Variant: the stone is left on the board.
rollBackKeepsStone(w, lastMove) ==
    [w EXCEPT !.currentPlayer = lastMove.player,
              !.stepNumber = lastMove.step,
              !.gameOver = FALSE,
              !.winner = NoWinner]

\* performUndo's direct writes to the rules engine's fields.
rollBack(w, lastMove) ==
    [w EXCEPT !.boardData[<<lastMove.row, lastMove.col>>] = Empty,
              !.currentPlayer = lastMove.player,
              !.stepNumber = lastMove.step,
              !.gameOver = FALSE,
              !.winner = NoWinner]

\* Variant: a refused undo puts the phase back to playing.
performUndoResumes(w) ==
    IF ~canUndo(w) THEN [w EXCEPT !.gameState = "playing", !.ret = "false"]
    ELSE LET w1 == undoLastMove(w)
             lastMove == w1.returned
         IN  IF lastMove = NoMove THEN [w1 EXCEPT !.ret = "false"]
             ELSE LET w2 == rollBack(w1, lastMove)
                      w3 == emitPlayerChanged(w2)
                  IN  [w3 EXCEPT !.gameState = "playing", !.ret = "true"]

performUndo(w) ==
    IF ~canUndo(w) THEN [w EXCEPT !.ret = "false"]
    ELSE LET w1 == undoLastMove(w)
             lastMove == w1.returned
         IN  IF lastMove = NoMove THEN [w1 EXCEPT !.ret = "false"]
             ELSE LET w2 == rollBack(w1, lastMove)
                      w3 == emitPlayerChanged(w2)
                  IN  [w3 EXCEPT !.gameState = "playing", !.ret = "true"]

resetGame(w) == [interactionResetGame(w) EXCEPT !.ret = "true"]

\* Variant: pausing is accepted in every phase but Paused.
pauseGameFromAnyPhase(w) ==
    IF w.gameState # "paused"
    THEN [disable([w EXCEPT !.gameState = "paused"]) EXCEPT !.ret = "true"]
    ELSE [w EXCEPT !.ret = "false"]

pauseGame(w) ==
    IF w.gameState = "playing"
    THEN [disable([w EXCEPT !.gameState = "paused"]) EXCEPT !.ret = "true"]
    ELSE [w EXCEPT !.ret = "false"]

resumeGame(w) ==
    IF w.gameState = "paused"
    THEN [enable([w EXCEPT !.gameState = "playing"]) EXCEPT !.ret = "true"]
    ELSE [w EXCEPT !.ret = "false"]

\* GameController.destroy: the interaction layer and the log are torn down
\* (InteractionManager.destroy, MoveHistory.destroy), the modules are dropped and the
\* phase goes back to idle.  The fields of the dropped rules engine keep their values.
destroy(w) ==
    LET w1 == [clearPreview(w) EXCEPT !.isMarkingMode = FALSE, !.isEnabled = FALSE]
        w2 == clear(w1)
    IN  [w2 EXCEPT !.isInitialized = FALSE, !.gameState = "idle"]

\* new GameLogic(boardSize): the size, then reset(), then the listener map.  The
\* reset emits before the map exists, so the constructor throws and the map is never
\* made.  With listenersFirst the last two statements are taken in the other order:
\* the reset then emits to a map that has no listener yet.
constructGameLogic(w, size, listenersFirst) ==
    LET w1 == [w EXCEPT !.boardSize = size, !.listeners = "undefined"]
    IN  IF listenersFirst
        THEN [w1 EXCEPT !.listeners = "Map",
                        !.boardData = CHOOSE board \in [Positions(size) -> {Empty}] : TRUE,
                        !.currentPlayer = Black,
                        !.stepNumber = 1,
                        !.gameOver = FALSE,
                        !.winner = NoWinner]
        ELSE reset(w1)

newGameLogic(w, size) == constructGameLogic(w, size, FALSE)

\* GameController.initializeModules: the board, the rules engine, the log with its
\* cap, the UI and the interaction layer, none of them connected yet.  A throw of
\* the engine's constructor ends it there.
initializeModules(w, config, listenersFirst) ==
    LET w1 == constructGameLogic(w, config.boardSize, listenersFirst)
        w2 == [w1 EXCEPT !.history = <<>>,
                         !.evicted = 0,
                         !.maxHistorySize = DefaultMaxHistorySize]
        w3 == setMaxHistorySize(w2, config.maxHistorySize)
    IN  IF w1.thrown # "none"
        THEN w1
        ELSE [w3 EXCEPT !.isMarkingMode = FALSE,
                        !.prePlacePosition = Null,
                        !.isEnabled = TRUE,
                        !.connections = 0]

\* GameController.init after its await: setupModuleConnections and
\* bindControllerEvents register the controller's listeners on the modules the
\* controller holds, and the controller is initialised and playing.
connectModules(w) ==
    [w EXCEPT !.connections = @ + 1,
              !.isInitialized = TRUE,
              !.gameState = "playing",
              !.ret = "true"]

\* GomokuApp.init: new GameController(config), whose constructor calls init()
\* without awaiting it, and then init() again.  Each init() runs initializeModules
\* up to its await before either goes on, so both go on with the modules of the
\* second; an init() whose initializeModules threw catches it and returns false.
startGame(w, config, listenersFirst) ==
    LET made == [w EXCEPT !.isInitialized = FALSE, !.gameState = "idle", !.replay = <<>>]
        first == initializeModules(made, config, listenersFirst)
        second == initializeModules([first EXCEPT !.thrown = "none"], config, listenersFirst)
        afterFirst == IF first.thrown # "none"
                      THEN [second EXCEPT !.ret = "false"]
                      ELSE connectModules(second)
    IN  IF second.thrown # "none"
        THEN [afterFirst EXCEPT !.thrown = "none", !.ret = "false"]
        ELSE connectModules(afterFirst)

\* importGame up to its forEach: the reset, and the moves left to replay.  It returns
\* true once the last of them has been replayed.
importGame(w, moveHistory) ==
    LET w1 == [resetGame(w) EXCEPT !.replay = moveHistory]
    IN  [w1 EXCEPT !.ret = IF moveHistory = <<>> THEN "true" ELSE "undefined"]

\* One turn of importGame's forEach.
replayMove(w) ==
    LET move == Head(w.replay)
        w1 == placeStone(w, move[1], move[2])
        w2 == IF w1.placed.ret.success THEN handleSuccessfulMove(w1, w1.placed.ret) ELSE w1
    IN  [w2 EXCEPT !.replay = Tail(@),
                   !.ret = IF Len(w.replay) = 1 THEN "true" ELSE "undefined"]

RECURSIVE placeStoneObserved(_, _, _, _)

\* What a listener of 'stonePlaced' does when it calls back into the game.  A nested
\* placeStone that succeeds emits 'stonePlaced' in its turn, and the listener then
\* asks again, for the cell that has just been taken.
reenter(w, request) ==
    CASE request.call = "placeStone" ->
           placeStoneObserved(w, request.row, request.col, request)
      [] request.call = "performUndo" -> performUndo(w)
      [] request.call = "resetGame" -> resetGame(w)

\* GameLogic.placeStone with one more listener of 'stonePlaced', registered through
\* GameController.on: emit calls it after the controller's own listener, before
\* 'playerChanged' is emitted.
placeStoneObserved(w, row, col, request) ==
    LET called == [w EXCEPT !.before = Core(w)]
    IN
    IF ~canPlaceStone(w, row, col)
    THEN [called EXCEPT !.placed = [called |-> TRUE, row |-> row, col |-> col, ret |-> Rejected],
                        !.rejections = @ + 1]
    ELSE
      LET moveData == [row |-> row, col |-> col, player |-> w.currentPlayer, step |-> w.stepNumber]
          w1 == [called EXCEPT !.boardData[<<row, col>>] = w.currentPlayer]
          winningPositions == checkWin(w1, row, col)
      IN
      IF winningPositions # <<>>
      THEN LET w2 == [w1 EXCEPT !.gameOver = TRUE, !.winner = w.currentPlayer]
               w3 == emitGameWin(w2)
           IN  [w3 EXCEPT !.placed = [called |-> TRUE, row |-> row, col |-> col,
                                      ret |-> [success |-> TRUE, win |-> TRUE,
                                               winningPositions |-> winningPositions,
                                               moveData |-> moveData]]]
      ELSE LET w2 == advanceTurn(w1)
               w3 == emitPlayerChanged(reenter(emitStonePlaced(w2, moveData), request))
           IN  [w3 EXCEPT !.before = Core(w),
                          !.placed = [called |-> TRUE, row |-> row, col |-> col,
                                      ret |-> [success |-> TRUE, win |-> FALSE,
                                               winningPositions |-> <<>>,
                                               moveData |-> moveData]]]

\* The forEach of importGame run to its end.
RECURSIVE replayAll(_)
replayAll(w) == IF w.replay = <<>> THEN w ELSE replayAll(replayMove(w))

\* GameController.importGame as one call.
importGameWhole(w, moveHistory) == replayAll(importGame(w, moveHistory))

\* GameController.exportGame: boardState.moveHistory is MoveHistory.getAllMoves(), of
\* which importGame reads each move's row and col.
exportGame(w) == [i \in 1 .. Len(w.history) |-> <<w.history[i].row, w.history[i].col>>]

\* ------------------------------------------------------------------ inputs
\* The cells the players click.
ClickCells == {<<0, 0>>, <<0, 3>>, <<0, 4>>, <<2, 2>>}

\* Black on (0,0)..(0,3), White on (1,0)..(1,3), Black to move.
OpenFour ==
    << <<0, 0>>, <<1, 0>>, <<0, 1>>, <<1, 1>>, <<0, 2>>, <<1, 2>>, <<0, 3>>, <<1, 3>> >>

\* Black on (0,1),(0,2),(0,4),(0,5), Black to move: (0,3) makes five in a row.
GapFour ==
    << <<0, 1>>, <<1, 1>>, <<0, 2>>, <<1, 2>>, <<0, 4>>, <<1, 4>>, <<0, 5>>, <<1, 5>> >>

\* Black on (0,0),(0,1),(0,2),(0,4),(0,5), Black to move: (0,3) makes six in a row.
SplitFive ==
    << <<0, 0>>, <<1, 0>>, <<0, 1>>, <<1, 1>>, <<0, 2>>, <<1, 2>>, <<0, 4>>, <<1, 4>>,
       <<0, 5>>, <<2, 0>> >>

\* A save whose ninth move wins and whose tenth follows the end of the game.
WonGame == OpenFour \o << <<0, 4>>, <<2, 2>> >>

\* A save with a repeated cell and cells off the board.
CorruptSave == << <<0, 0>>, <<0, 0>>, <<-1, 2>>, <<0, BoardSize>>, <<1, 1>> >>

\* Black's and White's stones, played in turn, Black first.
Alternate(blacks, whites) ==
    [k \in 1 .. Len(blacks) + Len(whites) |->
        IF k % 2 = 1 THEN blacks[(k + 1) \div 2] ELSE whites[k \div 2]]

\* A game that fills the 5 x 5 board without five in a line:
\*     B W B W B / B W B W B / W B W B W / W B W B W / B W B B W
DrawnGame ==
    Alternate(<< <<0, 0>>, <<0, 2>>, <<0, 4>>, <<1, 0>>, <<1, 2>>, <<1, 4>>, <<2, 1>>,
                 <<2, 3>>, <<3, 1>>, <<3, 3>>, <<4, 0>>, <<4, 2>>, <<4, 3>> >>,
              << <<0, 1>>, <<0, 3>>, <<1, 1>>, <<1, 3>>, <<2, 0>>, <<2, 2>>, <<2, 4>>,
                 <<3, 0>>, <<3, 2>>, <<3, 4>>, <<4, 1>>, <<4, 4>> >>)

\* A game whose 25th move, Black's (0,4), completes the top row on the last empty
\* cell of the 5 x 5 board:
\*     B B B B B / W B W B W / B W B W W / W W B W B / B W W B W
WonOnLastCell ==
    Alternate(<< <<0, 0>>, <<0, 1>>, <<0, 2>>, <<0, 3>>, <<1, 1>>, <<1, 3>>, <<2, 0>>,
                 <<2, 2>>, <<3, 2>>, <<3, 4>>, <<4, 0>>, <<4, 3>>, <<0, 4>> >>,
              << <<1, 0>>, <<1, 2>>, <<1, 4>>, <<2, 1>>, <<2, 3>>, <<2, 4>>, <<3, 0>>,
                 <<3, 1>>, <<3, 3>>, <<4, 1>>, <<4, 2>>, <<4, 4>> >>)

SavedGames == {OpenFour, GapFour, SplitFive, WonGame, CorruptSave, DrawnGame, WonOnLastCell}

\* ------------------------------------------------- generated saved games
\* Saved games that lay one colour's stones on a line, or on two crossing lines, and end
\* with the stone that joins them; the other colour's stones are scattered so that they
\* never line up.  They are replayed through placeStone like any other save.
AllCells == [k \in 1 .. BoardSize * BoardSize |->
                <<(k - 1) \div BoardSize, (k - 1) % BoardSize>>]

Scattered(p) == (p[1] + 2 * p[2]) % 5 \in {0, 1}

ScatteredCells == SelectSeq(AllCells, Scattered)

FillersFor(stones) ==
    LET stoneSet == {stones[i] : i \in 1 .. Len(stones)}
    IN  SelectSeq(ScatteredCells, LAMBDA p : p \notin stoneSet)

\* stones[1], filler, stones[2], filler, ..., stones[last]; with lead = 1 a filler moves
\* first, so that the stones are White's.
Interleave(stones, lead) ==
    LET fillers == FillersFor(stones)
        total == 2 * Len(stones) - 1 + lead
    IN  [k \in 1 .. total |->
            IF k <= lead THEN fillers[k]
            ELSE LET m == k - lead
                 IN  IF m % 2 = 1 THEN stones[(m + 1) \div 2]
                     ELSE fillers[lead + (m \div 2)]]

EnoughFillers(stones, lead) == Len(FillersFor(stones)) >= Len(stones) - 1 + lead

Anchor == <<MaxRun, MaxRun>>

\* A full row, column, diagonal and anti-diagonal of the board.
BoardLine(n, k) ==
    IF k = 1 THEN [i \in 1 .. n |-> <<MaxRun, i - 1>>]
    ELSE IF k = 2 THEN [i \in 1 .. n |-> <<i - 1, MaxRun>>]
    ELSE IF k = 3 THEN [i \in 1 .. n |-> <<i - 1, i - 1>>]
    ELSE [i \in 1 .. n |-> <<i - 1, n - i>>]

\* The stones at the places `chosen` of a line, the one at `last` placed last.
LineStones(line, chosen, last) ==
    LET others == SelectSeq([i \in 1 .. Len(line) |-> i],
                            LAMBDA i : i \in chosen /\ i # last)
    IN  [i \in 1 .. Len(others) |-> line[others[i]]] \o <<line[last]>>

LineLayouts ==
    {<<LineStones(BoardLine(BoardSize, k), chosen, last), lead>> :
        <<k, chosen, last, lead>> \in
            {q \in (1 .. 4) \X (SUBSET (1 .. BoardSize)) \X (1 .. BoardSize) \X {0, 1} :
                q[3] \in q[2]}}

LineGames ==
    {Interleave(q[1], q[2]) : q \in {q \in LineLayouts : EnoughFillers(q[1], q[2])}}

\* The cells of a run through the anchor along direction d, `neg` cells on the negative
\* side and `pos` on the positive, without the anchor and cut at the board's edge.
ArmCells(d, neg, pos) ==
    {<<Anchor[1] + k * d[1], Anchor[2] + k * d[2]>> : k \in (-neg .. pos) \ {0}}
        \cap Positions(BoardSize)

CrossStones(i, j, runs) ==
    LET cells == ArmCells(directions[i], runs[1], runs[2])
                 \cup ArmCells(directions[j], runs[3], runs[4])
    IN  SelectSeq(AllCells, LAMBDA p : p \in cells) \o <<Anchor>>

CrossLayouts ==
    {<<CrossStones(q[1], q[2], q[3]), q[4]>> :
        q \in {q \in (1 .. 4) \X (1 .. 4) \X ((0 .. MaxRun) \X (0 .. MaxRun)
                                               \X (0 .. MaxRun) \X (0 .. MaxRun)) \X {0, 1} :
                  q[1] < q[2]}}

CrossGames ==
    {Interleave(q[1], q[2]) : q \in {q \in CrossLayouts : EnoughFillers(q[1], q[2])}}

GeneratedGames == LineGames \cup CrossGames

\* ----------------------------------------------------------------- actions
Idle == replay = <<>>

HandleCellClick(row, col) ==
    Idle /\ Become(handleCellClick(Begin(Cur, "handleCellClick"), row, col))

\* Ctrl+U.
PerformUndo ==
    Idle /\ Become(performUndo(Begin(Cur, "performUndo")))

\* The undo button: the interaction layer's listener, then the controller's.
\* The controller's listener is there once for each setupModuleConnections.
undoRequested(w) ==
    LET undone[k \in 0..w.connections] ==
            IF k = 0 THEN handleUndoRequest(w) ELSE performUndo(undone[k - 1])
    IN  undone[w.connections]

UndoRequested ==
    Idle /\ Become(undoRequested(Begin(Cur, "undoRequested")))

ResetGame ==
    Idle /\ Become(resetGame(Begin(Cur, "resetGame")))

PauseGame ==
    Idle /\ Become(pauseGame(Begin(Cur, "pauseGame")))

ResumeGame ==
    Idle /\ Become(resumeGame(Begin(Cur, "resumeGame")))

HandleMarkToggleRequest ==
    Idle /\ Become(handleMarkToggleRequest(Begin(Cur, "handleMarkToggleRequest")))

ImportGame(moveHistory) ==
    Idle /\ Become(importGame(Begin(Cur, "importGame"), moveHistory))

ReplayMove ==
    ~Idle /\ Become(replayMove(Begin(Cur, "importGame")))

\* startGomokuGame's timer: the auto-saved game is imported once, after start-up.
TryRestoreAutoSave(saves) ==
    /\ op = "init"
    /\ \E moveHistory \in saves : Become(importGame(Begin(Cur, "importGame"), moveHistory))

\* ------------------------------------------------------------- Init, specs
FreshBoard(n) == [p \in Positions(n) |-> Empty]

Init ==
    /\ boardSize \in {MinBoardSize, BoardSize}
    /\ boardData = FreshBoard(boardSize)
    /\ currentPlayer = Black
    /\ stepNumber = 1
    /\ gameOver = FALSE
    /\ winner = NoWinner
    /\ history = <<>>
    /\ maxHistorySize \in {HistoryCap, DefaultMaxHistorySize}
    /\ evicted = 0
    /\ gameState = "playing"
    /\ isEnabled = TRUE
    /\ isMarkingMode = FALSE
    /\ prePlacePosition = Null
    /\ replay = <<>>
    /\ events = <<>>
    /\ op = "init"
    /\ ret = "true"
    /\ placed = NoCall
    /\ before = NoSnapshot
    /\ returned = NoMove
    /\ rejections = 0
    /\ seen = <<>>
    /\ held = NoArray
    /\ isInitialized = TRUE
    /\ connections = 1
    /\ listeners = "Map"
    /\ thrown = "none"
    /\ winHandled = 0
    /\ faulty = {}
    /\ heard = <<>>

Next ==
    \/ \E cell \in ClickCells : HandleCellClick(cell[1], cell[2])
    \/ PerformUndo
    \/ UndoRequested
    \/ ResetGame
    \/ PauseGame
    \/ ResumeGame
    \/ HandleMarkToggleRequest
    \/ \E game \in SavedGames : ImportGame(game)
    \/ ReplayMove

Spec == Init /\ [][Next]_vars

\* The rules engine driven by replays alone: start-up, then the restore of a generated save.
InitWin == Init /\ maxHistorySize = DefaultMaxHistorySize

\* The generated saves are laid out for the larger board.
AutoSaves == IF boardSize = BoardSize THEN GeneratedGames \cup SavedGames ELSE SavedGames

NextWin ==
    \/ TryRestoreAutoSave(AutoSaves)
    \/ ReplayMove

SpecWin == InitWin /\ [][NextWin]_vars

\* The controller's whole life: the handlers above while it is initialised, its
\* destruction, and the calls a destroyed controller still answers without touching
\* its dropped modules.
Destroy ==
    Idle /\ Become(destroy(Begin(Cur, "destroy")))

Initialised == gameState # "idle"

NextLife ==
    \/ Initialised /\ \E cell \in ClickCells : HandleCellClick(cell[1], cell[2])
    \/ Initialised /\ PerformUndo
    \/ Initialised /\ UndoRequested
    \/ Initialised /\ ResetGame
    \/ Initialised /\ HandleMarkToggleRequest
    \/ Initialised /\ \E game \in SavedGames : ImportGame(game)
    \/ Initialised /\ ReplayMove
    \/ Initialised /\ Destroy
    \/ PauseGame
    \/ ResumeGame

SpecLife == Init /\ [][NextLife]_vars

\* The page started again after the game was stopped: startGomokuGame makes a new
\* GomokuApp once the old one is destroyed.
Configs ==
    [boardSize : {MinBoardSize, BoardSize},
     maxHistorySize : {HistoryCap, DefaultMaxHistorySize}]

StartGomokuGame(config) ==
    /\ ~isInitialized
    /\ Become(startGame(Begin(Cur, "startGomokuGame"), config, FALSE))

NextBoot ==
    \/ NextLife
    \/ \E config \in Configs : StartGomokuGame(config)

SpecBoot == Init /\ [][NextBoot]_vars

\* The game with saves loaded in one call, as GomokuApp.importGameFromFile does, and
\* with a save taken and loaded back at once.
ImportGameFromFile(moveHistory) ==
    Become(importGameWhole(Begin(Cur, "importGameFromFile"), moveHistory))

ExportThenImport ==
    Become(importGameWhole(Begin(Cur, "exportThenImport"), exportGame(Cur)))

SavedFiles == {OpenFour, WonGame, CorruptSave}

NextTrip ==
    \/ \E cell \in ClickCells : HandleCellClick(cell[1], cell[2])
    \/ PerformUndo
    \/ \E game \in SavedFiles : ImportGameFromFile(game)
    \/ ExportThenImport

SpecTrip == Init /\ [][NextTrip]_vars

\* The game with a listener of 'stonePlaced' that calls back into it.
Requests ==
    {[call |-> "placeStone", row |-> 1, col |-> 1],
     [call |-> "performUndo", row |-> 0, col |-> 0],
     [call |-> "resetGame", row |-> 0, col |-> 0]}

ObservedCells == ClickCells \cup {<<1, 1>>}

PlaceStoneObserved(row, col, request) ==
    Become(placeStoneObserved(Begin(Cur, "placeStoneObserved"), row, col, request))

NextReentry ==
    \/ \E cell \in ObservedCells, request \in Requests :
          PlaceStoneObserved(cell[1], cell[2], request)
    \/ PerformUndo
    \/ ResetGame

SpecReentry == Init /\ [][NextReentry]_vars

\* The game with a caller that queries it and writes to the arrays it gets.
GetLastMove == Become(getLastMove(Begin(Cur, "getLastMove")))

GetMoveByStep(step) == Become(getMoveByStep(Begin(Cur, "getMoveByStep"), step))

GetAllMoves == Become(getAllMoves(Begin(Cur, "getAllMoves")))

GetMovesByPlayer(player) == Become(getMovesByPlayer(Begin(Cur, "getMovesByPlayer"), player))

GetBoardData == Become(getBoardData(Begin(Cur, "getBoardData")))

Edits == {"pop", "push", "set"}

WriteHeld(edit) ==
    /\ held.kind # "none"
    /\ (held.kind = "moves" /\ edit = "push") => Len(held.array) < HistoryCap
    /\ Become(writeHeld(Begin(Cur, "writeHeld"), edit))

QueryCells == {<<0, 0>>, <<0, 3>>, <<2, 2>>}

NextQuery ==
    \/ \E cell \in QueryCells : HandleCellClick(cell[1], cell[2])
    \/ PerformUndo
    \/ GetLastMove
    \/ \E step \in 1 .. 2 : GetMoveByStep(step)
    \/ GetAllMoves
    \/ \E player \in {Black, White} : GetMovesByPlayer(player)
    \/ GetBoardData
    \/ \E edit \in Edits : WriteHeld(edit)

SpecQuery == Init /\ [][NextQuery]_vars

\* The same start with an engine whose constructor makes its listener map before
\* it resets, so that both init() calls of GomokuApp.init run to their end.
StartGameListenersFirst(config) ==
    /\ ~isInitialized
    /\ Become(startGame(Begin(Cur, "startGomokuGame"), config, TRUE))

\* Two entries for one placement push moves out of a capped log without end; the
\* game is followed while the evictions are few.
NextTwice ==
    \/ /\ Initialised /\ evicted < MaxAdds
       /\ \E cell \in QueryCells : HandleCellClick(cell[1], cell[2])
    \/ Initialised /\ UndoRequested
    \/ Initialised /\ ResetGame
    \/ Initialised /\ Destroy
    \/ \E config \in Configs : StartGameListenersFirst(config)

SpecTwice == Init /\ [][NextTwice]_vars

\* The game with listeners that throw: GameController.on registers, for an event
\* of the engine or of the log, a listener that throws and after it one that
\* returns.
ListenedEvents ==
    {"stonePlaced", "gameWin", "gameReset", "playerChanged", "moveAdded", "moveUndone"}

on(w, event) == [w EXCEPT !.faulty = @ \cup {event}]

On(event) ==
    /\ event \notin faulty
    /\ Become(on(Begin(Cur, "on"), event))

FaultyCells == {<<0, 4>>, <<2, 2>>}

NextFaulty ==
    \/ \E event \in ListenedEvents : On(event)
    \/ \E cell \in FaultyCells : HandleCellClick(cell[1], cell[2])
    \/ PerformUndo
    \/ ResetGame
    \/ \E game \in {OpenFour} : ImportGame(game)
    \/ ReplayMove

SpecFaulty == Init /\ [][NextFaulty]_vars

\* The move log used on its own, through MoveHistory's public methods.
LogMoves ==
    {[row |-> 0, col |-> 0, player |-> Black, step |-> 1],
     [row |-> 1, col |-> 0, player |-> White, step |-> 2]}

LogSizes == {0, 2, HistoryCap}

LogAddMove(moveData) ==
    /\ Len(history) + evicted < MaxAdds
    /\ Become(addMove(Begin(Cur, "addMove"), moveData))

LogUndoLastMove == Become(undoLastMove(Begin(Cur, "undoLastMove")))

LogGetLastMove == Become(getLastMove(Begin(Cur, "getLastMove")))

LogSetMaxHistorySize(size) ==
    /\ evicted < MaxAdds
    /\ Become(setMaxHistorySize(Begin(Cur, "setMaxHistorySize"), size))

NextLog ==
    \/ \E moveData \in LogMoves : LogAddMove(moveData)
    \/ LogUndoLastMove
    \/ LogGetLastMove
    \/ \E size \in LogSizes : LogSetMaxHistorySize(size)

SpecLog == Init /\ [][NextLog]_vars

\* ------------------------------------------------- vocabulary of the claims
\* The four axis directions, and the maximal run of one colour through a cell.
Axes == {<<0, 1>>, <<1, 0>>, <<1, 1>>, <<1, -1>>}

Shift(cell, d, k) == <<cell[1] + k * d[1], cell[2] + k * d[2]>>

Between(k) == IF k >= 0 THEN 0 .. k ELSE k .. 0

RunThrough(board, n, cell, d) ==
    {Shift(cell, d, k) : k \in
        {k \in (1 - n) .. (n - 1) :
            \A j \in Between(k) :
                /\ Shift(cell, d, j) \in Positions(n)
                /\ board[Shift(cell, d, j)] = board[cell]}}

RunLength(board, n, cell, d) == Cardinality(RunThrough(board, n, cell, d))

CellsOf(line) == {line[i] : i \in 1 .. Len(line)}

\* Consecutive entries are neighbours along one direction, walked one way.
EndToEnd(line) ==
    \E d \in Axes : \E sign \in {-1, 1} :
        \A i \in 1 .. Len(line) - 1 : line[i + 1] = Shift(line[i], d, sign)

\* The placed cell, then the cells on its positive side by increasing distance, then
\* those on its negative side by increasing distance.
PlacedFirstThenOutward(line, cell) ==
    /\ Len(line) = WinLength
    /\ line[1] = cell
    /\ \E d \in Axes : \E pos \in 0 .. WinLength - 1 :
        /\ \A i \in 1 .. pos : line[1 + i] = Shift(cell, d, i)
        /\ \A j \in 1 .. WinLength - 1 - pos : line[1 + pos + j] = Shift(cell, d, -j)

\* The position of the spec's example: a 5 x 5 board, Black on (0,0)..(0,3).
ExampleBoard(n, board) ==
    /\ n = 5
    /\ \A c \in 0 .. 3 : board[<<0, c>>] = Black
    /\ board[<<0, 4>>] = Empty

\* ------------------------------------------------------------------ claims

\* C1: in every reachable state canPlaceStone(row, col) is true iff the phase is
\* Playing, the cell is on the board and the cell is Empty (so it is false for every
\* cell while the phase is Paused or Finished).
C1_CanPlaceIffPlayingInBoundsEmpty ==
    \A row \in -1 .. boardSize : \A col \in -1 .. boardSize :
        canPlaceStone(Cur, row, col)
            <=> (/\ gameState = "playing"
                 /\ <<row, col>> \in Positions(boardSize)
                 /\ boardData[<<row, col>>] = Empty)

\* C2: a placeStone call on a cell off the board, on an occupied cell or after the
\* game is over fails, leaves board, turn, step, outcome and History as they were
\* and emits nothing.
C2_RejectedPlacementChangesNothing ==
    [][(/\ placed'.called
        /\ \/ <<placed'.row, placed'.col>> \notin Positions(boardSize)
           \/ boardData[<<placed'.row, placed'.col>>] # Empty
           \/ gameOver)
       => (/\ ~placed'.ret.success
           /\ boardData' = boardData
           /\ currentPlayer' = currentPlayer
           /\ stepNumber' = stepNumber
           /\ gameOver' = gameOver
           /\ winner' = winner
           /\ history' = history
           /\ events' = <<>>)]_vars

\* A placement on an occupied cell of a running game was rejected.
C2_Witness ==
    /\ placed.called
    /\ ~placed.ret.success
    /\ ~gameOver
    /\ <<placed.row, placed.col>> \in Positions(boardSize)
    /\ boardData[<<placed.row, placed.col>>] # Empty

\* C3: a successful placement that does not end the game sets the target cell, and
\* no other, to the player who was to move, adds one to stepNumber, passes the turn
\* and returns the move with the player and step of before the move.
C3_PlacementAdvancesTurn ==
    [][(placed'.called /\ placed'.ret.success /\ ~placed'.ret.win)
       => (/\ boardData' = [boardData EXCEPT ![<<placed'.row, placed'.col>>] = currentPlayer]
           /\ stepNumber' = stepNumber + 1
           /\ currentPlayer' \in {Black, White} \ {currentPlayer}
           /\ placed'.ret.moveData = [row |-> placed'.row, col |-> placed'.col,
                                      player |-> currentPlayer, step |-> stepNumber])]_vars

\* White has just placed a stone without ending the game.
C3_Witness ==
    /\ placed.called /\ placed.ret.success /\ ~placed.ret.win
    /\ placed.ret.moveData.player = White
    /\ currentPlayer = Black

\* The cells of a winning line: five different cells of the board, all of one colour,
\* covering five neighbouring places of one axis, the placed cell among them.
LineOfFive(line, board, n, cell, who) ==
    /\ Len(line) = 5
    /\ Cardinality(CellsOf(line)) = 5
    /\ \A q \in CellsOf(line) : q \in Positions(n) /\ board[q] = who
    /\ cell \in CellsOf(line)
    /\ \E d \in Axes : \E base \in CellsOf(line) :
        CellsOf(line) = {Shift(base, d, k) : k \in 0 .. 4}

\* C4: when the placed stone makes, along at least one axis, a maximal run of exactly
\* five of the mover's stones, placeStone reports a win of the mover with a line of
\* five cells as above.
C4_ExactFiveWins ==
    [][(/\ placed'.called
        /\ placed'.ret.success
        /\ \E d \in Axes :
            RunLength(boardData', boardSize, <<placed'.row, placed'.col>>, d) = 5)
       => (/\ placed'.ret.win
           /\ gameOver'
           /\ winner' = currentPlayer
           /\ LineOfFive(placed'.ret.winningPositions, boardData', boardSize,
                         <<placed'.row, placed'.col>>, currentPlayer))]_vars

\* A win by five along one axis while the stone also made a longer run along another.
C4_Witness ==
    /\ placed.called
    /\ placed.ret.win
    /\ \E d \in Axes : RunLength(boardData, boardSize, <<placed.row, placed.col>>, d) >= 6

\* C5: a placement that makes a run of six or more of the mover's stones through the
\* placed cell is reported as a win.
C5_OverlineWins ==
    [][(/\ placed'.called
        /\ placed'.ret.success
        /\ \E d \in Axes :
            RunLength(boardData', boardSize, <<placed'.row, placed'.col>>, d) >= 6)
       => placed'.ret.win]_vars

\* C6: a placement whose runs through the placed cell are shorter than five along
\* all four axes is not a win, whatever else is on the board.
C6_ShortRunsDoNotWin ==
    [][(/\ placed'.called
        /\ placed'.ret.success
        /\ \A d \in Axes :
            RunLength(boardData', boardSize, <<placed'.row, placed'.col>>, d) < 5)
       => (/\ ~placed'.ret.win
           /\ ~gameOver'
           /\ winner' = NoWinner)]_vars

\* A stone that made a row of four, with stones of the other colour on the board,
\* and the game goes on.
C6_Witness ==
    /\ placed.called /\ placed.ret.success /\ ~placed.ret.win
    /\ ~gameOver
    /\ \E d \in Axes : RunLength(boardData, boardSize, <<placed.row, placed.col>>, d) = 4
    /\ \E q \in Positions(boardSize) : boardData[q] = otherPlayer(placed.ret.moveData.player)

C8_EveryPlacementIsLogged ==
    [][(placed'.called /\ placed'.ret.success)
       => (\/ history' = Append(history, placed'.ret.moveData)
           \/ history' = Tail(Append(history, placed'.ret.moveData)))]_vars

\* C9 as stated: stepNumber is the length of History plus one, in every state.
C9_StepIsHistoryLengthPlusOne ==
    stepNumber = Len(history) + 1

\* C9 amended: stepNumber is the length of History, plus the number of moves evicted
\* from it since the last reset, plus one.
C9_StepCountsEvictedMoves ==
    stepNumber = Len(history) + evicted + 1

\* An undo has succeeded on a log that had evicted moves and still holds some.
C9_Witness ==
    /\ op = "performUndo" /\ ret = "true"
    /\ evicted > 0
    /\ Len(history) > 0

\* C10: a successful placement, winning or not, followed at once by undo leaves
\* board, turn, step, outcome, phase and History as they were before the placement
\* (stated for the default retention cap, under which nothing is evicted).
C10_PlaceThenUndoRestores ==
    [][(/\ placed.called
        /\ placed.ret.success
        /\ maxHistorySize = DefaultMaxHistorySize
        /\ op' \in {"performUndo", "undoRequested"})
       => Core(Cur)' = before]_vars

\* The handlers an undo request runs: Ctrl+U and the undo button.
UndoOps == {"performUndo", "undoRequested"}

\* Board, turn, step, outcome, phase and History are left as they were.
CoreUnchanged == Core(Cur)' = Core(Cur)

Fresh ==
    /\ boardData = FreshBoard(boardSize)
    /\ currentPlayer = Black
    /\ stepNumber = 1
    /\ ~gameOver
    /\ winner = NoWinner
    /\ history = <<>>
    /\ gameState = "playing"

\* C11: performUndo with an empty History reports failure and leaves board, turn,
\* step, outcome, phase and History unchanged.
C11_UndoOfEmptyLogRefused ==
    [][(op' \in UndoOps /\ history = <<>>)
       => (ret' = "false" /\ CoreUnchanged)]_vars

\* An undo was refused on an empty log while the game was paused.
C11_Witness ==
    /\ op \in UndoOps /\ ret = "false"
    /\ history = <<>>
    /\ gameState = "paused"

\* C12: with the phase Finished after a win and moves in History, undo succeeds,
\* takes the outcome back to no winner and the phase back to Playing.
C12_UndoAfterWinSucceeds ==
    [][(/\ op' \in UndoOps
        /\ gameState = "finished" /\ gameOver
        /\ Len(history) > 0)
       => (/\ ret' = "true"
           /\ ~gameOver'
           /\ winner' = NoWinner
           /\ gameState' = "playing")]_vars

\* C13: resetGame from Playing, Paused or Finished leaves a fresh game: every cell
\* Empty, Black to move, step 1, no outcome, empty History, phase Playing.
C13_ResetGivesFreshGame ==
    [][op' = "resetGame" => (ret' = "true" /\ Fresh')]_vars

\* A reset made while the game was paused (the interaction layer is still disabled).
C13_Witness ==
    /\ op = "resetGame"
    /\ ~isEnabled
    /\ Fresh

\* C14: while the phase is Paused a click places nothing, an undo request is refused,
\* and both leave board, turn, step, outcome and History unchanged.
C14_PausedRejectsClicksAndUndo ==
    [][(gameState = "paused" /\ op' \in UndoOps \cup {"handleCellClick"})
       => (/\ ~placed'.called
           /\ op' \in UndoOps => ret' = "false"
           /\ CoreUnchanged)]_vars

\* An undo was refused in a paused game whose History holds moves.
C14_Witness ==
    /\ gameState = "paused"
    /\ op \in UndoOps /\ ret = "false"
    /\ Len(history) > 0

\* C15: pauseGame succeeds from Playing only, and leads to Paused; resumeGame succeeds
\* from Paused only, and leads to Playing; in every other phase, Finished and Idle
\* included, each returns false and changes nothing; and the phase becomes Finished
\* from Playing only.
C15_PauseResumeAndFinishedEntry ==
    [][/\ op' = "pauseGame" =>
            IF gameState = "playing"
            THEN ret' = "true" /\ gameState' = "paused"
            ELSE ret' = "false" /\ CoreUnchanged /\ isEnabled' = isEnabled
       /\ op' = "resumeGame" =>
            IF gameState = "paused"
            THEN ret' = "true" /\ gameState' = "playing"
            ELSE ret' = "false" /\ CoreUnchanged /\ isEnabled' = isEnabled
       /\ (gameState' = "finished" /\ gameState # "finished") => gameState = "playing"]_vars

\* A pause was refused in a finished game.
C15_Witness ==
    /\ op = "pauseGame" /\ ret = "false"
    /\ gameState = "finished"
    /\ gameOver

BoardFull == \A p \in Positions(boardSize) : boardData[p] # Empty

\* C16: isDraw() is true iff the board is completely full and the final move produced
\* no winning line; a full board whose last move won is not a draw and a board with an
\* Empty cell is never a draw.
C16_DrawIffFullWithoutWin ==
    isDraw(Cur) <=> (BoardFull /\ winner = NoWinner)

\* C17: a placement that fills the last Empty cell without winning ends the game: the
\* game is over and the phase goes from Playing to Finished.
C17_FillingTheBoardEndsTheGame ==
    [][(/\ placed'.called
        /\ placed'.ret.success
        /\ ~placed'.ret.win
        /\ BoardFull')
       => (gameOver' /\ gameState' = "finished")]_vars

\* The handlers that start a new game: resetGame, and importGame through it.
ResetOps == {"resetGame", "importGame"}

\* C18: once the game is over, gameOver, winner and the board are left alone by every
\* placement attempt, pause and resume, and the game is only reopened by a reset or an
\* undo.
C18_OutcomeIsStable ==
    [][gameOver =>
        (/\ (\/ placed'.called
             \/ op' \in {"handleCellClick", "pauseGame", "resumeGame"})
               => (gameOver' /\ winner' = winner /\ boardData' = boardData)
         /\ ~gameOver' => op' \in ResetOps \cup UndoOps)]_vars

\* A click on the board of a game that was already over.
C18_Witness ==
    /\ gameOver
    /\ op = "handleCellClick"
    /\ ~placed.called

\* C19: a successful placement targets an Empty cell; an occupied cell only changes by
\* becoming Empty, through a reset or through the undo of the move that put its stone
\* there, which is the latest move still on the board, and that undo clears no other cell.
C19_OneStonePerCell ==
    [][/\ (placed'.called /\ placed'.ret.success)
            => boardData[<<placed'.row, placed'.col>>] = Empty
       /\ \A p \in Positions(boardSize) :
            (boardData[p] # Empty /\ boardData'[p] # boardData[p])
                => /\ boardData'[p] = Empty
                   /\ \/ op' \in ResetOps
                      \/ /\ op' \in UndoOps
                         /\ history # <<>>
                         /\ LET lastMove == history[Len(history)]
                            IN  /\ p = <<lastMove.row, lastMove.col>>
                                /\ boardData[p] = lastMove.player
                                /\ lastMove.step = stepNumber - 1
                         /\ boardData' = [boardData EXCEPT ![p] = Empty]]_vars

\* An undo took a stone off a board on which others remain, some of them older than
\* the log.
C19_Witness ==
    /\ op \in UndoOps /\ ret = "true"
    /\ evicted > 0
    /\ \E p \in Positions(boardSize) : boardData[p] # Empty

\* C20: Black moves at odd steps and White at even ones: in every state currentPlayer
\* is Black iff stepNumber is odd, every move of History was made by the player of its
\* step, and consecutive moves of History have different players.
C20_PlayersAlternate ==
    /\ currentPlayer = Black <=> stepNumber % 2 = 1
    /\ currentPlayer \in {Black, White}
    /\ \A i \in 1 .. Len(history) : history[i].player = Black <=> history[i].step % 2 = 1
    /\ \A i \in 1 .. Len(history) - 1 : history[i].player # history[i + 1].player

\* After an undo it is White's turn again, with moves left in History.
C20_Witness ==
    /\ op \in UndoOps /\ ret = "true"
    /\ currentPlayer = White
    /\ Len(history) >= 2

\* The number of stones on a board.
Stones(board, n) == Cardinality({p \in Positions(n) : board[p] # Empty})

\* C21: since the last reset the number of stones on the board is the number of
\* successful placements minus the number of successful undos: a reset leaves none,
\* a successful placement adds one, a successful undo removes one, and nothing else
\* changes the number.
C21_StonesArePlacementsMinusUndos ==
    [][LET change == (IF placed'.called /\ placed'.ret.success THEN 1 ELSE 0)
                     - (IF op' \in UndoOps /\ ret' = "true" THEN 1 ELSE 0)
       IN  IF op' = "resetGame" \/ (op' = "importGame" /\ ~placed'.called)
           THEN Stones(boardData', boardSize) = 0
           ELSE IF boardData' = boardData
                THEN change = 0
                ELSE Stones(boardData', boardSize) = Stones(boardData, boardSize) + change]_vars

\* An undo has succeeded on a board that keeps stones older than the log.
C21_Witness ==
    /\ op \in UndoOps /\ ret = "true"
    /\ evicted > 0
    /\ Stones(boardData, boardSize) = Len(history) + evicted

\* C22: addMove appends the move at the end and, when the length then exceeds the
\* cap, drops the oldest entry: after the call the log is the most recent
\* min(length + 1, cap) entries of the old log followed by the move, in order, and
\* its length does not exceed the cap.
C22_AddMoveKeepsMostRecent ==
    [][op' = "addMove" =>
         LET pushed == Append(history, returned')
             keep == IF Len(pushed) < maxHistorySize THEN Len(pushed) ELSE maxHistorySize
         IN  /\ history' = SubSeq(pushed, Len(pushed) - keep + 1, Len(pushed))
             /\ Len(history') <= maxHistorySize']_vars

\* addMove has evicted: the log is full and its newest entry differs from its oldest.
C22_Witness ==
    /\ op = "addMove"
    /\ evicted > 0
    /\ Len(history) = maxHistorySize
    /\ history[Len(history)] = returned
    /\ history[1] # returned

\* C23: whenever addMove evicts an entry because the cap is exceeded, the observers
\* of the log are told: the call delivers some notification besides the 'moveAdded'
\* of the move it appended.
C23_EvictionIsNotified ==
    [][(op' = "addMove" /\ evicted' > evicted) =>
         \E i \in 1..Len(events') : events'[i] # "moveAdded"]_vars

\* C24: once the log has evicted moves, an undo removes only a retained move: it
\* takes the newest entry of the log and changes no cell but that entry's, and when
\* no entry is left it reports that nothing can be undone and leaves the board, with
\* the stones of the evicted moves, as it was.
C24_UndoStopsAtEvictionHorizon ==
    [][(op' \in UndoOps /\ evicted > 0) =>
         IF Len(history) = 0
         THEN ret' = "false" /\ CoreUnchanged /\ evicted' = evicted
         ELSE /\ evicted' = evicted
              /\ ret' \in {"true", "false"}
              /\ ret' = "false" => CoreUnchanged
              /\ ret' = "true" =>
                   LET last == history[Len(history)]
                   IN  /\ history' = SubSeq(history, 1, Len(history) - 1)
                       /\ \A p \in Positions(boardSize) :
                            p # <<last.row, last.col>> => boardData'[p] = boardData[p]]_vars

\* Every retained move has been undone, the next undo was refused, and the stones of
\* the evicted moves are still on the board.
C24_Witness ==
    /\ op \in UndoOps /\ ret = "false"
    /\ evicted > 0
    /\ history = <<>>
    /\ gameState = "playing"
    /\ Stones(boardData, boardSize) = evicted

\* C25: undoLastMove removes the newest entry of the log and returns it, and on an
\* empty log returns null and changes nothing; getLastMove returns the newest entry,
\* or null on an empty log, and leaves the log as it was.
C25_UndoLastMoveIsLifo ==
    [][/\ op' = "undoLastMove" =>
            IF Len(history) = 0
            THEN returned' = NoMove /\ CoreUnchanged /\ events' = <<>>
            ELSE /\ returned' = history[Len(history)]
                 /\ history' = SubSeq(history, 1, Len(history) - 1)
       /\ op' = "getLastMove" =>
            /\ CoreUnchanged /\ events' = <<>>
            /\ returned' = IF Len(history) = 0 THEN NoMove ELSE history[Len(history)]]_vars

\* undoLastMove has returned an entry that differs from the one now on top and from
\* the oldest one left.
C25_Witness ==
    /\ op = "undoLastMove"
    /\ Len(history) >= 2
    /\ returned # NoMove
    /\ returned # history[Len(history)]
    /\ returned # history[1]

\* C26: when a move of an imported history is rejected during the replay, importGame
\* fails, and the board, the session, the phase and History are exactly as they were
\* before the import.
C26_RejectedImportChangesNothing ==
    [][(op' = "importGameFromFile" /\ rejections' > 0) =>
         ret' = "false" /\ CoreUnchanged]_vars

\* C27: exportGame followed by importGame of the exported data reproduces the board
\* and the session (player to move, step number, game over, winner), in every state
\* the game reaches, a finished game included.
C27_ExportImportRoundTrip ==
    [][op' = "exportThenImport" =>
         /\ boardData' = boardData
         /\ currentPlayer' = currentPlayer
         /\ stepNumber' = stepNumber
         /\ gameOver' = gameOver
         /\ winner' = winner]_vars

\* C28: a winning placement delivers 'stonePlaced' first and 'gameWin' after it, both
\* during the placeStone call.
C28_WinDeliversStonePlacedThenGameWin ==
    [][(placed'.called /\ placed'.ret.success /\ placed'.ret.win) =>
         \E i, j \in 1..Len(events') :
            i < j /\ events'[i] = "stonePlaced" /\ events'[j] = "gameWin"]_vars

\* C29: every notification is delivered after the state change of its operation is
\* complete: at 'moveUndone' the cell of the undone move is already Empty and the
\* player to move, the step number and the outcome are already rolled back; at
\* 'stonePlaced' and at 'gameWin' the board, the turn and the outcome already show
\* the move.
C29_NotifiedAfterTheChange ==
    [][\A i \in 1..Len(events') :
         LET at == seen'[i]
             undone == returned'
             move == placed'.ret.moveData
         IN  /\ events'[i] = "moveUndone" =>
                  /\ at.boardData[<<undone.row, undone.col>>] = Empty
                  /\ at.currentPlayer = undone.player
                  /\ at.stepNumber = undone.step
                  /\ ~at.gameOver /\ at.winner = NoWinner
             /\ events'[i] = "stonePlaced" =>
                  /\ at.boardData[<<move.row, move.col>>] = move.player
                  /\ at.currentPlayer = otherPlayer(move.player)
                  /\ at.stepNumber = move.step + 1
                  /\ ~at.gameOver
             /\ events'[i] = "gameWin" =>
                  /\ at.boardData[<<move.row, move.col>>] = move.player
                  /\ at.gameOver /\ at.winner = move.player]_vars

\* C30: a listener that calls placeStone, performUndo or reset while it is being
\* notified does not change the board, the session or History: a successful
\* placement that does not win leaves exactly its own stone, one step and one entry
\* of History more, and the turn with the other player, whatever its listener asked.
C30_ListenerCannotReenter ==
    [][(op' = "placeStoneObserved" /\ placed'.ret.success /\ ~placed'.ret.win) =>
         LET move == placed'.ret.moveData
             pushed == Append(history, move)
         IN  /\ boardData' = [boardData EXCEPT ![<<move.row, move.col>>] = move.player]
             /\ currentPlayer' = otherPlayer(currentPlayer)
             /\ stepNumber' = stepNumber + 1
             /\ ~gameOver' /\ winner' = NoWinner
             /\ history' = IF Len(pushed) > maxHistorySize THEN Tail(pushed) ELSE pushed]_vars

\* C31: getMovesByPlayer, getMoveByStep, getAllMoves, getLastMove and getBoardData
\* change neither History, the board nor the session, and a write to the array one
\* of them returned changes neither the stored History sequence nor the board.
QueryOps ==
    {"getLastMove", "getMoveByStep", "getAllMoves", "getMovesByPlayer", "getBoardData",
     "writeHeld"}

C31_QueriesAreReadOnly ==
    [][op' \in QueryOps => CoreUnchanged]_vars

\* The caller has pushed an entry on the array of moves it was given, and History
\* holds its own moves and not that entry.
C31_Witness ==
    /\ op = "writeHeld"
    /\ held.kind = "moves"
    /\ held.array # <<>>
    /\ held.array[Len(held.array)] = NoMove
    /\ Len(history) >= 2
    /\ history # held.array

\* C32: starting the game (a GameController constructed and its init() completed)
\* leaves the controller initialised, init having returned true, the phase
\* playing and the engine fresh with its listener map made.
C32_StartLeavesFreshPlayingGame ==
    [][op' = "startGomokuGame" =>
          /\ ret' = "true"
          /\ isInitialized'
          /\ listeners' = "Map"
          /\ Fresh']_vars

C34_FinishedIffGameOver ==
    isInitialized => (gameState = "finished" <=> gameOver)

\* A click has just won the game of an initialised controller.
C34_Witness ==
    /\ isInitialized
    /\ op = "handleCellClick"
    /\ placed.called /\ placed.ret.win
    /\ gameOver /\ gameState = "finished"

\* C35: the winner is recorded exactly when the game is over, and while the game
\* is over the winner is the player to move and the occupant of the cell placed
\* last: the game becomes over only by a winning placement, which leaves its player
\* as winner and as player to move, and a game that stays over keeps its board, its
\* winner and its player to move.
C35_WinnerIsLastMover ==
    /\ [](winner # NoWinner <=> gameOver)
    /\ [][/\ (~gameOver /\ gameOver') => (placed'.called /\ placed'.ret.win)
          /\ (placed'.called /\ placed'.ret.win) =>
                /\ gameOver'
                /\ winner' = currentPlayer'
                /\ boardData'[<<placed'.row, placed'.col>>] = winner'
          /\ (gameOver /\ gameOver') =>
                /\ winner' = winner
                /\ currentPlayer' = currentPlayer
                /\ boardData' = boardData]_vars

\* The game is over, won by White, and a further placement has just been refused.
C35_Witness ==
    /\ gameOver
    /\ winner = White
    /\ currentPlayer = White
    /\ op = "importGame"
    /\ placed.called /\ ~placed.ret.success

\* C36: while the game is not over, no stone of the board lies, along any axis, in
\* a maximal run of exactly five stones of its colour.
C36_NoFiveWhileNotOver ==
    ~gameOver =>
        \A cell \in Positions(boardSize) : \A d \in Axes :
            LET same(k) == /\ Shift(cell, d, k) \in Positions(boardSize)
                           /\ boardData[Shift(cell, d, k)] = boardData[cell]
            IN  ~(/\ boardData[cell] # Empty
                  /\ \A k \in 1 .. WinLength - 1 : same(k)
                  /\ ~same(WinLength)
                  /\ ~same(-1))

\* An undo has just taken a stone back from an imported game, and the game goes on
\* with a run of four stones of one colour on the board.
C36_Witness ==
    /\ op \in UndoOps /\ ret = "true"
    /\ ~gameOver
    /\ returned # NoMove
    /\ \E cell \in Positions(boardSize) : \E d \in Axes :
          /\ boardData[cell] # Empty
          /\ RunLength(boardData, boardSize, cell, d) = WinLength - 1

\* C37: while the controller is initialised, the interaction layer is disabled
\* exactly when the phase is paused; so after resetGame, which leaves the phase
\* playing, it is enabled.
C37_DisabledIffPaused ==
    isInitialized => (~isEnabled <=> gameState = "paused")

\* C38: a board click changes the board only when the interaction layer is enabled,
\* marking mode is off, the game is not over and the preview is on the clicked
\* cell, and then it changes that cell alone; a click that leaves the board as it
\* was also leaves the player to move, the step number, the outcome and History.
C38_OnlyConfirmingClickPlaces ==
    [][op' = "handleCellClick" =>
         /\ \A p \in Positions(boardSize) :
               boardData'[p] # boardData[p] =>
                  /\ isEnabled /\ ~isMarkingMode /\ ~gameOver
                  /\ prePlacePosition = p
                  /\ placed'.called /\ <<placed'.row, placed'.col>> = p
         /\ boardData' = boardData =>
               /\ currentPlayer' = currentPlayer
               /\ stepNumber' = stepNumber
               /\ gameOver' = gameOver
               /\ winner' = winner
               /\ history' = history]_vars

\* The second click on a previewed cell has just placed a stone there.
C38_Witness ==
    /\ op = "handleCellClick"
    /\ placed.called /\ placed.ret.success
    /\ boardData[<<placed.row, placed.col>>] # Empty
    /\ prePlacePosition = Null

\* C39: a winning placement made by a board click runs the interaction layer's win
\* handling exactly once.
C39_WinHandledOnce ==
    [][(op' = "handleCellClick" /\ placed'.called /\ placed'.ret.win)
         => winHandled' = 1]_vars

\* C40: when a listener of an event throws, every emission of the event still
\* reaches the listener registered after it, no exception reaches the caller, and
\* the emitting operation completes: a successful placement leaves its stone and
\* either the win or the passed turn, the advanced step and the logged move; a
\* reset returns true and leaves a fresh game; an undo that can be made returns
\* true, removes the newest entry of the log and empties its cell.
C40_ThrowingListenerIsIsolated ==
    [][LET throws(event) == event \in faulty'
           move == placed'.ret.moveData
           last == history[Len(history)]
       IN  /\ thrown' = "none"
           /\ heard' = SelectSeq(events', throws)
           /\ (placed'.called /\ placed'.ret.success) =>
                 /\ boardData'[<<move.row, move.col>>] = move.player
                 /\ IF placed'.ret.win
                    THEN gameOver' /\ winner' = move.player
                    ELSE /\ stepNumber' = move.step + 1
                         /\ currentPlayer' # move.player
                         /\ history' # <<>>
                         /\ history'[Len(history')] = move
           /\ op' = "resetGame" => (ret' = "true" /\ Fresh')
           /\ (op' = "performUndo" /\ canUndo(Cur)) =>
                 /\ ret' = "true"
                 /\ history' = SubSeq(history, 1, Len(history) - 1)
                 /\ boardData'[<<last.row, last.col>>] = Empty]_vars

\* A click has placed a stone while 'stonePlaced' and 'moveAdded' each have a
\* listener that throws: both emissions reached the listener after it, and the move
\* is in the log.
C40_Witness ==
    /\ op = "handleCellClick"
    /\ {"stonePlaced", "moveAdded"} \subseteq faulty
    /\ placed.called /\ placed.ret.success /\ ~placed.ret.win
    /\ \E i, j \in 1 .. Len(heard) : heard[i] = "stonePlaced" /\ heard[j] = "moveAdded"
    /\ history # <<>>
    /\ history[Len(history)] = placed.ret.moveData

====
